---- MODULE Spec2Model ----
(***************************************************************************)
(* A model of kedro-telemetry: the argument maskers, the vocabulary        *)
(* builder and the command-tree flattener of kedro_telemetry/masking.py,   *)
(* and the before_command_run hook with its consent file of                *)
(* kedro_telemetry/plugin.py.                                              *)
(*                                                                         *)
(* Python strings are sequences of one-character strings, so that          *)
(* startswith, split and join are computed and not assumed.                *)
(***************************************************************************)
EXTENDS Integers, Sequences, FiniteSets, TLC

VARIABLES
    \* ---- the pure functions (SpecMask, SpecVocab) ----
    op,                  \* which function has been applied ("none" before)
    cli_struct,          \* the structure map handed to the function
    command_args,        \* the raw argument vector (also the hook's argument)
    output,              \* the list a masker returned
    vocabulary,          \* the set _get_vocabulary returned
    cli_obj,             \* the command tree handed to get_cli_structure
    get_help,            \* the get_help argument of get_cli_structure
    \* ---- the hook (Spec) ----
    pc,                  \* position of the process inside before_command_run
    project_metadata,    \* TRUE when the hook was given project metadata
    masked_command_args, \* plugin.py:70
    main_command,        \* plugin.py:72
    telemetry_file,      \* the .telemetry file of the project, on disk
    consent,             \* what _check_for_telemetry_consent returned
    confirm_calls,       \* the paths _confirm_consent was called with, this run
    hostname,            \* outcome of socket.gethostname(), this run
    properties,          \* what _format_user_cli_data returned, this run
    events,              \* the calls of _send_heap_event, in order, this run
    warnings,            \* logger.warning calls, in order, this run
    exception,           \* the exception that left the hook, "none" if none
    prompts,             \* how often the user was asked, over all runs
    answered,            \* the answer of the last completed prompt
    external_edits       \* how often somebody else changed the file

maskVars == <<op, cli_struct, output, vocabulary, cli_obj, get_help>>
hookVars == <<pc, project_metadata, masked_command_args, main_command,
              telemetry_file, consent, confirm_calls, hostname, properties,
              events, warnings, exception, prompts, answered, external_edits>>
vars == <<maskVars, command_args, hookVars>>

(***************************************************************************)
(* Bounds                                                                  *)
(***************************************************************************)
MaxArgs == 2
MaxDepth == 1
MaxHookArgs == 2
MaxExternalEdits == 1
MaxTreeDepth == 2

(***************************************************************************)
(* Strings                                                                 *)
(***************************************************************************)
EmptyStr == <<>>

\* str.startswith(c) for a one-character c
StartsWith(s, c) == Len(s) > 0 /\ s[1] = c

\* c in s
Contains(s, c) == \E i \in 1..Len(s) : s[i] = c

\* s.index(c): the position of the first c
FirstIndex(s, c) == CHOOSE i \in 1..Len(s) : s[i] = c /\ \A j \in 1..(i - 1) : s[j] # c

\* s.split(c, 1): at most two parts, cut at the first c
SplitFirst(s, c) ==
    IF Contains(s, c)
    THEN <<SubSeq(s, 1, FirstIndex(s, c) - 1), SubSeq(s, FirstIndex(s, c) + 1, Len(s))>>
    ELSE <<s>>

\* s.split(c): cut at every c
RECURSIVE SplitAll(_, _)
SplitAll(s, c) ==
    IF Contains(s, c)
    THEN <<SubSeq(s, 1, FirstIndex(s, c) - 1)>>
             \o SplitAll(SubSeq(s, FirstIndex(s, c) + 1, Len(s)), c)
    ELSE <<s>>

\* sep.join(parts)
RECURSIVE Join(_, _)
Join(parts, sep) ==
    IF Len(parts) = 0 THEN EmptyStr
    ELSE IF Len(parts) = 1 THEN parts[1]
    ELSE parts[1] \o sep \o Join(Tail(parts), sep)

\* list(filter(None, xs)): the falsy (empty) strings dropped
RECURSIVE FilterNone(_)
FilterNone(xs) ==
    IF Len(xs) = 0 THEN <<>>
    ELSE (IF Head(xs) = EmptyStr THEN <<>> ELSE <<Head(xs)>>) \o FilterNone(Tail(xs))

(***************************************************************************)
(* masking.py                                                              *)
(***************************************************************************)
MASK == <<"*", "*", "*", "*", "*">>
DashH == <<"-", "h">>
DashDashVersion == <<"-", "-", "v", "e", "r", "s", "i", "o", "n">>
Kedro == <<"k", "e", "d", "r", "o">>

\* Values of a structure map: None, a string, or a nested dict.
Null == [kind |-> "null"]
StrVal(s) == [kind |-> "str", s |-> s]
DictVal(d) == [kind |-> "dict", d |-> d]
EmptyDict == [k \in {} |-> Null]

\* _recursive_items without the descent into nested dicts
_recursive_items_flat(dictionary) ==
    { IF dictionary[key].kind = "dict" THEN <<key, Null>> ELSE <<key, dictionary[key]>>
      : key \in DOMAIN dictionary }

\* _recursive_items: the (key, value) pairs it yields, a dict-valued entry as
\* (key, None) followed by the pairs of the nested dict.  Only membership is
\* used by the caller, so the pairs are collected as a set.
RECURSIVE _recursive_items(_)
_recursive_items(dictionary) ==
    UNION { IF dictionary[key].kind = "dict"
            THEN {<<key, Null>>} \cup _recursive_items(dictionary[key].d)
            ELSE {<<key, dictionary[key]>>}
          : key \in DOMAIN dictionary }

\* `if _v:` on a yielded value: None and the empty string are falsy
Truthy(v) == v.kind = "str" /\ v.s # EmptyStr

\* _get_vocabulary started from an empty set
_get_vocabulary_unseeded(struct) ==
    {kv[1] : kv \in _recursive_items(struct)}
        \cup {kv[2].s : kv \in {p \in _recursive_items(struct) : Truthy(p[2])}}

_get_vocabulary(struct) ==
    {DashH, DashDashVersion}
        \cup {kv[1] : kv \in _recursive_items(struct)}
        \cup {kv[2].s : kv \in {p \in _recursive_items(struct) : Truthy(p[2])}}

\* MaskPart with the unknown part appended as it is
MaskPartUnmasked(part, vocab) == IF part # EmptyStr THEN <<part>> ELSE <<>>

\* MaskPart with the empty part masked like any unknown part
MaskPartEmptyMasked(part, vocab) == IF part \in vocab THEN <<part>> ELSE <<MASK>>

\* MaskPart with the unknown part skipped instead of masked
MaskPartDropped(part, vocab) == IF part \in vocab THEN <<part>> ELSE <<>>

\* what one '='-separated part, or one positional token, adds to the output
MaskPart(part, vocab) ==
    IF part \in vocab THEN <<part>>
    ELSE IF part # EmptyStr THEN <<MASK>>
    ELSE <<>>

RECURSIVE MaskParts(_, _)
MaskParts(parts, vocab) ==
    IF Len(parts) = 0 THEN <<>>
    ELSE MaskPart(Head(parts), vocab) \o MaskParts(Tail(parts), vocab)

\* the loop body with a flag-like token cut at its first '=' only
MaskKedroArgFirstEquals(arg, vocab) ==
    IF StartsWith(arg, "-")
    THEN MaskParts(SplitFirst(arg, "="), vocab)
    ELSE MaskPart(arg, vocab)

\* the loop body with a flag-like token looked up whole, never split
MaskKedroArgNoSplit(arg, vocab) == MaskPart(arg, vocab)

\* the body of the for loop of mask_kedro_cli, for one arg
MaskKedroArg(arg, vocab) ==
    IF StartsWith(arg, "-")
    THEN MaskParts(SplitAll(arg, "="), vocab)
    ELSE MaskPart(arg, vocab)

RECURSIVE MaskKedroLoop(_, _)
MaskKedroLoop(args, vocab) ==
    IF Len(args) = 0 THEN <<>>
    ELSE MaskKedroArg(Head(args), vocab) \o MaskKedroLoop(Tail(args), vocab)

mask_kedro_cli(struct, args) == MaskKedroLoop(args, _get_vocabulary(struct))

(***************************************************************************)
(* plugin.py: _mask_arguments                                              *)
(***************************************************************************)
(* masking.py: the command tree and its flattening                         *)
(***************************************************************************)
\* cli_element.name: a string, or None
NoName == [has |-> FALSE, s |-> EmptyStr]
Name(s) == [has |-> TRUE, s |-> s]

\* click.Group / click.CommandCollection: a name and the commands it holds;
\* click.Command: a name and its parameters, each with its list of opts
Group(name, commands) ==
    [type |-> "Group", name |-> name, commands |-> commands, params |-> <<>>]
Command(name, params) ==
    [type |-> "Command", name |-> name, commands |-> {}, params |-> params]
NoCli == [type |-> "none", name |-> NoName, commands |-> {}, params |-> <<>>]

\* cli_element.list_commands(ctx) and cli_element.get_command(ctx, _sc)
list_commands(cli_element) == {c.name.s : c \in cli_element.commands}
get_command(cli_element, _sc) == CHOOSE c \in cli_element.commands : c.name.s = _sc

\* cli_element.get_help(ctx): the rendered help of a command
UsagePreamble == <<"U", "s", "a", "g", "e", ":", " ">>
CommandGetHelp(cli_element) == UsagePreamble \o cli_element.name.s

\* element_name with the default used for every group
element_name_fixed(cli_element) == Kedro

\* element_name = cli_element.name or "kedro"
element_name(cli_element) ==
    IF cli_element.name.has /\ cli_element.name.s # EmptyStr
    THEN cli_element.name.s
    ELSE Kedro

\* [item for sublist in l_of_l for item in sublist]
FlattenOpts(l_of_l) ==
    UNION {{l_of_l[i][j] : j \in 1..Len(l_of_l[i])} : i \in 1..Len(l_of_l)}

\* dict.fromkeys(keys, None)
DictFromKeys(keys) == [k \in keys |-> Null]

\* io_dict[key] = value
DictSet(io_dict, key, value) == (key :> value) @@ io_dict

\* _recurse_cli returns nothing and mutates io_dict; here it returns the
\* mutated io_dict.  RecurseCommands is its for loop over the sub-commands
\* still to visit, filling the dict of the group.
RECURSIVE _recurse_cli(_, _, _)
RECURSIVE RecurseCommands(_, _, _, _)
RecurseCommands(cli_element, todo, group_dict, help) ==
    IF todo = {} THEN group_dict
    ELSE LET _sc == CHOOSE n \in todo : TRUE
         IN  RecurseCommands(cli_element, todo \ {_sc},
                             _recurse_cli(get_command(cli_element, _sc), group_dict, help),
                             help)

_recurse_cli(cli_element, io_dict, help) ==
    IF cli_element.type = "Group"
    THEN DictSet(io_dict, element_name(cli_element),
                 DictVal(RecurseCommands(cli_element, list_commands(cli_element),
                                         EmptyDict, help)))
    ELSE IF cli_element.type = "Command"
    THEN IF help
         THEN DictSet(io_dict, cli_element.name.s, StrVal(CommandGetHelp(cli_element)))
         ELSE DictSet(io_dict, cli_element.name.s,
                      DictVal(DictFromKeys(FlattenOpts(cli_element.params))))
    ELSE io_dict

get_cli_structure(obj, help) == _recurse_cli(obj, EmptyDict, help)

(***************************************************************************)
\* the loop with the token after a flag masked but left on the iterator
RECURSIVE MaskArgumentsLoopNoConsume(_, _)
MaskArgumentsLoopNoConsume(args, i) ==
    IF i > Len(args) THEN <<>>
    ELSE IF StartsWith(args[i], "-")
    THEN IF Contains(args[i], "=")
         THEN <<SplitFirst(args[i], "=")[1], MASK>> \o MaskArgumentsLoopNoConsume(args, i + 1)
         ELSE <<args[i]>>
                  \o (IF i + 1 <= Len(args) /\ args[i + 1] # EmptyStr
                      THEN <<MASK>> ELSE <<>>)
                  \o MaskArgumentsLoopNoConsume(args, i + 1)
    ELSE <<args[i]>> \o MaskArgumentsLoopNoConsume(args, i + 1)

\* the loop with the text after '=' appended in place of the mask
RECURSIVE MaskArgumentsLoopKeepValue(_, _)
MaskArgumentsLoopKeepValue(args, i) ==
    IF i > Len(args) THEN <<>>
    ELSE IF StartsWith(args[i], "-")
    THEN IF Contains(args[i], "=")
         THEN SplitFirst(args[i], "=") \o MaskArgumentsLoopKeepValue(args, i + 1)
         ELSE <<args[i]>>
                  \o (IF i + 1 <= Len(args) /\ args[i + 1] # EmptyStr
                      THEN <<MASK>> ELSE <<>>)
                  \o MaskArgumentsLoopKeepValue(args, i + 2)
    ELSE <<args[i]>> \o MaskArgumentsLoopKeepValue(args, i + 1)

\* the for loop over the iterator, from position i on; a flag without '='
\* pulls the next token off the iterator as well
RECURSIVE MaskArgumentsLoop(_, _)
MaskArgumentsLoop(args, i) ==
    IF i > Len(args) THEN <<>>
    ELSE IF StartsWith(args[i], "-")
    THEN IF Contains(args[i], "=")
         THEN <<SplitFirst(args[i], "=")[1], MASK>> \o MaskArgumentsLoop(args, i + 1)
         ELSE <<args[i]>>
                  \o (IF i + 1 <= Len(args) /\ args[i + 1] # EmptyStr
                      THEN <<MASK>> ELSE <<>>)
                  \o MaskArgumentsLoop(args, i + 2)
    ELSE <<args[i]>> \o MaskArgumentsLoop(args, i + 1)

_mask_arguments(args) == FilterNone(MaskArgumentsLoop(args, 1))

(***************************************************************************)
(* Inputs of the pure functions                                            *)
(***************************************************************************)
Dashes == {EmptyStr, <<"-">>, <<"-", "-">>}
Names == {EmptyStr, <<"a">>, <<"b">>}
Tails == {EmptyStr, <<"=">>, <<"=", "b">>, <<"=", "a", "=", "b">>}
Tokens ==
    {d \o n \o t : d \in Dashes, n \in Names, t \in Tails}
        \cup {DashH, DashDashVersion, MASK}

VectorsOver(toks, n) == UNION {[1..k -> toks] : k \in 0..n}
ArgVectors == VectorsOver(Tokens, MaxArgs)

\* structure maps the maskers are tried with: empty, the raw structure of a
\* small CLI, a help structure (string leaves), and odd keys and leaves
MaskStructs ==
    { EmptyDict,
      (Kedro :> DictVal((<<"a">> :> DictVal((<<"-", "a">> :> Null) @@ (<<"-", "-", "a">> :> Null))))),
      (Kedro :> DictVal((<<"a">> :> StrVal(<<"b">>)))),
      (EmptyStr :> Null) @@ (<<"-">> :> Null),
      (<<"a">> :> StrVal(EmptyStr)) @@ (<<"-", "b">> :> Null),
      (<<"-", "a", "=", "b">> :> Null) @@ (<<"b">> :> Null) }

\* every structure map over StructKeys nested at most depth levels deep
StructKeys == {EmptyStr, <<"a">>}
LeafValues == {Null, StrVal(EmptyStr), StrVal(<<"-", "b">>)}
RECURSIVE DictsOfDepth(_)
DictsOfDepth(depth) ==
    LET vals == IF depth = 0 THEN LeafValues
                ELSE LeafValues \cup {DictVal(d) : d \in DictsOfDepth(depth - 1)}
    IN  UNION {[ks -> vals] : ks \in SUBSET StructKeys}
StructureMaps == DictsOfDepth(MaxDepth)

\* command trees: a command a with no parameters, a command a with two
\* parameters of which one has a short and a long spelling, and a command b
\* with one parameter; groups are named a or b, hold at most one command per
\* name, and only the root can be without a name
CommandNames == {<<"a">>, <<"b">>}
Commands ==
    { Command(Name(<<"a">>), <<>>),
      Command(Name(<<"a">>), << <<<<"-", "a">>, <<"-", "-", "a">>>>, <<<<"-", "b">>>> >>),
      Command(Name(<<"b">>), << <<<<"-", "b">>>> >>) }
RECURSIVE NamedNodes(_)
RECURSIVE CommandSets(_)
CommandSets(depth) ==
    LET nodes == NamedNodes(depth)
        as == {c \in nodes : c.name.s = <<"a">>}
        bs == {c \in nodes : c.name.s = <<"b">>}
    IN  {{}} \cup {{x} : x \in as} \cup {{y} : y \in bs}
             \cup {{x, y} : x \in as, y \in bs}
NamedNodes(depth) ==
    IF depth = 0 THEN Commands
    ELSE Commands \cup {Group(Name(n), cs) : n \in CommandNames, cs \in CommandSets(depth - 1)}
CliObjects ==
    NamedNodes(MaxTreeDepth) \cup {Group(NoName, cs) : cs \in CommandSets(MaxTreeDepth - 1)}

(***************************************************************************)
(* The state of a process that has not entered the hook                    *)
(***************************************************************************)
NoProperties == <<>>

\* no command tree has been handed over
TreeIdle ==
    /\ cli_obj = NoCli
    /\ get_help = FALSE

HookIdle ==
    /\ pc = "idle"
    /\ project_metadata = FALSE
    /\ masked_command_args = <<>>
    /\ main_command = EmptyStr
    /\ telemetry_file = [exists |-> FALSE, readable |-> TRUE, content |-> "missing"]
    /\ consent = "none"
    /\ confirm_calls = <<>>
    /\ hostname = "none"
    /\ properties = NoProperties
    /\ events = <<>>
    /\ warnings = <<>>
    /\ exception = "none"
    /\ prompts = 0
    /\ answered = "none"
    /\ external_edits = 0

(***************************************************************************)
(* SpecMask: the two maskers applied to every argument vector              *)
(***************************************************************************)
InitMask ==
    /\ op = "none"
    /\ cli_struct \in MaskStructs
    /\ command_args \in ArgVectors
    /\ output = <<>>
    /\ vocabulary = {}
    /\ TreeIdle
    /\ HookIdle

ApplyMaskKedroCli ==
    /\ op = "none"
    /\ op' = "mask_kedro_cli"
    /\ output' = mask_kedro_cli(cli_struct, command_args)
    /\ UNCHANGED <<cli_struct, vocabulary, command_args, cli_obj, get_help, hookVars>>

ApplyMaskArguments ==
    /\ op = "none"
    /\ op' = "_mask_arguments"
    /\ output' = _mask_arguments(command_args)
    /\ UNCHANGED <<cli_struct, vocabulary, command_args, cli_obj, get_help, hookVars>>

NextMask == ApplyMaskKedroCli \/ ApplyMaskArguments

SpecMask == InitMask /\ [][NextMask]_vars

(***************************************************************************)
(* SpecVocab: the vocabulary builder applied to every structure map        *)
(***************************************************************************)
InitVocab ==
    /\ op = "none"
    /\ cli_struct \in StructureMaps
    /\ command_args = <<>>
    /\ output = <<>>
    /\ vocabulary = {}
    /\ TreeIdle
    /\ HookIdle

ApplyGetVocabulary ==
    /\ op = "none"
    /\ op' = "_get_vocabulary"
    /\ vocabulary' = _get_vocabulary(cli_struct)
    /\ UNCHANGED <<cli_struct, output, command_args, cli_obj, get_help, hookVars>>

NextVocab == ApplyGetVocabulary

SpecVocab == InitVocab /\ [][NextVocab]_vars

(***************************************************************************)
(* SpecTree: get_cli_structure applied to every command tree               *)
(***************************************************************************)
InitTree ==
    /\ op = "none"
    /\ cli_obj \in CliObjects
    /\ get_help \in BOOLEAN
    /\ cli_struct = EmptyDict
    /\ command_args = <<>>
    /\ output = <<>>
    /\ vocabulary = {}
    /\ HookIdle

ApplyGetCliStructure ==
    /\ op = "none"
    /\ op' = "get_cli_structure"
    /\ cli_struct' = get_cli_structure(cli_obj, get_help)
    /\ UNCHANGED <<output, vocabulary, command_args, cli_obj, get_help, hookVars>>

NextTree == ApplyGetCliStructure

SpecTree == InitTree /\ [][NextTree]_vars

(***************************************************************************)
(* plugin.py: the consent file                                             *)
(***************************************************************************)
\* Values yaml.safe_load returns
YNone == [t |-> "none"]
YStr(s) == [t |-> "str", v |-> s]
YBool(b) == [t |-> "bool", v |-> b]
YDict(d) == [t |-> "dict", d |-> d]

\* yaml.safe_load on the texts a .telemetry file is tried with; ok is FALSE
\* where the text is no YAML and the parser raises yaml.YAMLError
yaml_safe_load(text) ==
    CASE text = "consent: true\n"  -> [ok |-> TRUE, value |-> YDict([k \in {"consent"} |-> YBool(TRUE)])]
      [] text = "consent: false\n" -> [ok |-> TRUE, value |-> YDict([k \in {"consent"} |-> YBool(FALSE)])]
      [] text = ""                 -> [ok |-> TRUE, value |-> YNone]
      [] text = "nonsense: bla\n"  -> [ok |-> TRUE, value |-> YDict([k \in {"nonsense"} |-> YStr("bla")])]
      [] text = "consent: maybe\n" -> [ok |-> TRUE, value |-> YDict([k \in {"consent"} |-> YStr("maybe")])]
      [] text = "invalid_ yaml"    -> [ok |-> TRUE, value |-> YStr("invalid_ yaml")]
      [] OTHER                     -> [ok |-> FALSE, value |-> YNone]

\* yaml.dump({"consent": b}, telemetry_file)
yaml_dump_consent(b) == IF b THEN "consent: true\n" ELSE "consent: false\n"

\* dict.get(key, default)
DictGet(d, key, default) == IF key \in DOMAIN d THEN d[key] ELSE default

_is_valid_syntax(telemetry) ==
    telemetry.t = "dict" /\ DictGet(telemetry.d, "consent", YNone).t = "bool"

FileTexts ==
    {"consent: true\n", "consent: false\n", "", "nonsense: bla\n",
     "consent: maybe\n", "invalid_ yaml", "consent: ["}

MissingFile == [exists |-> FALSE, readable |-> TRUE, content |-> "missing"]
UnreadableFile == [exists |-> TRUE, readable |-> FALSE, content |-> ""]
FileStates ==
    {MissingFile, UnreadableFile}
        \cup {[exists |-> TRUE, readable |-> TRUE, content |-> t] : t \in FileTexts}

ProjectPath == <<"project">>
\* project_path / ".telemetry"
TelemetryFilePath(project_path) == project_path \o <<".telemetry">>

\* _confirm_consent with nothing dumped when the user declines
_confirm_consent_no_dump(telemetry_file_path, answer) ==
    [raised |-> "none",
     result |-> answer,
     confirm_calls |-> <<telemetry_file_path>>,
     file |-> [exists |-> TRUE, readable |-> TRUE,
               content |-> IF answer THEN yaml_dump_consent(TRUE) ELSE ""]]

\* _confirm_consent with the user answering `answer`: the file is opened for
\* writing, the user is asked once, the answer is dumped and returned
_confirm_consent(telemetry_file_path, answer) ==
    [raised |-> "none",
     result |-> answer,
     confirm_calls |-> <<telemetry_file_path>>,
     file |-> [exists |-> TRUE, readable |-> TRUE, content |-> yaml_dump_consent(answer)]]

\* _check_for_telemetry_consent on the file `file`; `answer` is what the user
\* says if asked.  open() raises on a file that cannot be read, and
\* yaml.safe_load raises on a text that is not YAML; neither is caught.
_check_for_telemetry_consent(project_path, file, answer) ==
    IF ~file.exists
    THEN _confirm_consent(TelemetryFilePath(project_path), answer)
    ELSE IF ~file.readable
    THEN [raised |-> "PermissionError", result |-> FALSE, confirm_calls |-> <<>>, file |-> file]
    ELSE IF ~yaml_safe_load(file.content).ok
    THEN [raised |-> "YAMLError", result |-> FALSE, confirm_calls |-> <<>>, file |-> file]
    ELSE IF _is_valid_syntax(yaml_safe_load(file.content).value)
    THEN [raised |-> "none",
          result |-> yaml_safe_load(file.content).value.d["consent"].v,
          confirm_calls |-> <<>>,
          file |-> file]
    ELSE _confirm_consent(TelemetryFilePath(project_path), answer)

(***************************************************************************)
(* plugin.py: the event                                                    *)
(***************************************************************************)
\* hashlib.sha512(bytes(s, "utf8")).hexdigest()
Sha512Hex(s) == <<"sha512:">> \o s

ComputerName == <<"host">>
LoginName == <<"user">>
PackageName == <<"dummy_package">>
ProjectName == <<"CLI Testing Project">>
Anonymous == <<"anonymous">>

\* _format_user_cli_data; login is "ok" when os.getlogin() returns
_format_user_cli_data(args, login) ==
    [username |-> IF login = "ok" THEN Sha512Hex(LoginName) ELSE Anonymous,
     command |-> IF args # <<>>
                 THEN Kedro \o <<" ">> \o Join(args, <<" ">>)
                 ELSE Kedro,
     package_name |-> Sha512Hex(PackageName),
     project_name |-> Sha512Hex(ProjectName),
     project_version |-> <<"project_version">>,
     telemetry_version |-> <<"telemetry_version">>,
     python_version |-> <<"sys.version">>,
     os |-> <<"sys.platform">>]

\* the hook formatting the arguments as typed
HookPropertiesRaw(raw, masked, login) == _format_user_cli_data(raw, login)

\* properties, plugin.py:99: the masked vector is what is formatted
HookProperties(raw, masked, login) == _format_user_cli_data(masked, login)

\* main_command, plugin.py:72
MainCommand(masked) == IF masked # <<>> THEN masked[1] ELSE Kedro

\* the arguments of the first _send_heap_event call, plugin.py:101-105
SpecificEvent(main, props) ==
    [event_name |-> <<"Command run: ">> \o main,
     identity |-> Sha512Hex(ComputerName),
     properties |-> props]

\* the arguments of the second call, plugin.py:108-114
GenericEvent(main, props) ==
    [event_name |-> <<"CLI command">>,
     identity |-> Sha512Hex(ComputerName),
     properties |-> ("main_command" :> main) @@ props]

\* the hook with the return of plugin.py:83 missing
AfterConsentNoReturn(result) == "hostname"

\* where the hook goes after the consent check, plugin.py:77-85
AfterConsent(result) == IF result THEN "hostname" ELSE "returned"

\* the hook with the return of plugin.py:97 missing
AfterHostnameNoReturn(outcome) == "format"

\* where the hook goes after the hostname lookup, plugin.py:87-97
AfterHostname(outcome) == IF outcome = "timeout" THEN "returned" ELSE "format"

\* what requests.post does: answers 200, answers another status, or raises
NetOutcomes == {"200", "500", "raises"}

\* _send_heap_event: a status other than 200 is logged; an exception of
\* requests.post is not caught
SendWarnings(net) == IF net = "500" THEN <<"heap_failed">> ELSE <<>>
SendException(net) == IF net = "raises" THEN "ConnectionError" ELSE "none"

(***************************************************************************)
(* Spec: invocations of the hook, one process each                         *)
(***************************************************************************)
HookTokens == {EmptyStr, <<"a">>, <<"b">>, <<"-", "a">>, <<"-", "a", "=", "b">>}
HookArgVectors == VectorsOver(HookTokens, MaxHookArgs)

Init ==
    /\ op = "none"
    /\ cli_struct = EmptyDict
    /\ command_args = <<>>
    /\ output = <<>>
    /\ vocabulary = {}
    /\ TreeIdle
    /\ pc = "idle"
    /\ project_metadata = FALSE
    /\ masked_command_args = <<>>
    /\ main_command = EmptyStr
    /\ telemetry_file \in FileStates
    /\ consent = "none"
    /\ confirm_calls = <<>>
    /\ hostname = "none"
    /\ properties = NoProperties
    /\ events = <<>>
    /\ warnings = <<>>
    /\ exception = "none"
    /\ prompts = 0
    /\ answered = "none"
    /\ external_edits = 0

BoolStr(b) == IF b THEN "True" ELSE "False"

\* plugin.py:70-74
BeforeCommandRun ==
    /\ pc = "idle"
    /\ \E args \in HookArgVectors, metadata \in BOOLEAN :
        /\ command_args' = args
        /\ project_metadata' = metadata
        /\ masked_command_args' = _mask_arguments(args)
        /\ main_command' = MainCommand(_mask_arguments(args))
        /\ pc' = IF metadata THEN "check_consent" ELSE "returned"
    /\ UNCHANGED <<maskVars, telemetry_file, consent, confirm_calls, hostname,
                   properties, events, warnings, exception, prompts, answered,
                   external_edits>>

\* plugin.py:76-85
CheckConsent ==
    /\ pc = "check_consent"
    /\ \E answer \in BOOLEAN :
        LET r == _check_for_telemetry_consent(ProjectPath, telemetry_file, answer)
        IN  /\ telemetry_file' = r.file
            /\ confirm_calls' = r.confirm_calls
            /\ prompts' = prompts + Len(r.confirm_calls)
            /\ answered' = IF r.confirm_calls # <<>> THEN BoolStr(r.result) ELSE answered
            /\ exception' = r.raised
            /\ consent' = IF r.raised # "none" THEN "none" ELSE BoolStr(r.result)
            /\ pc' = IF r.raised # "none" THEN "raised" ELSE AfterConsent(r.result)
    /\ UNCHANGED <<maskVars, command_args, project_metadata, masked_command_args,
                   main_command, hostname, properties, events, warnings,
                   external_edits>>

\* plugin.py:87-97
GetHostname ==
    /\ pc = "hostname"
    /\ \E outcome \in {"ok", "timeout"} :
        /\ hostname' = outcome
        /\ warnings' = IF outcome = "timeout"
                       THEN Append(warnings, "socket_timeout") ELSE warnings
        /\ pc' = AfterHostname(outcome)
    /\ UNCHANGED <<maskVars, command_args, project_metadata, masked_command_args,
                   main_command, telemetry_file, consent, confirm_calls,
                   properties, events, exception, prompts, answered,
                   external_edits>>

\* plugin.py:99
FormatUserCliData ==
    /\ pc = "format"
    /\ \E login \in {"ok", "fails"} :
        /\ properties' = HookProperties(command_args, masked_command_args, login)
        /\ warnings' = IF login = "fails" THEN Append(warnings, "username") ELSE warnings
    /\ pc' = "send_specific"
    /\ UNCHANGED <<maskVars, command_args, project_metadata, masked_command_args,
                   main_command, telemetry_file, consent, confirm_calls, hostname,
                   events, exception, prompts, answered, external_edits>>

\* plugin.py:101-105
SendSpecificEvent ==
    /\ pc = "send_specific"
    /\ events' = Append(events, SpecificEvent(main_command, properties))
    /\ \E net \in NetOutcomes :
        /\ warnings' = warnings \o SendWarnings(net)
        /\ exception' = SendException(net)
        /\ pc' = IF SendException(net) # "none" THEN "raised" ELSE "send_generic"
    /\ UNCHANGED <<maskVars, command_args, project_metadata, masked_command_args,
                   main_command, telemetry_file, consent, confirm_calls, hostname,
                   properties, prompts, answered, external_edits>>

\* plugin.py:107-114
SendGenericEvent ==
    /\ pc = "send_generic"
    /\ events' = Append(events, GenericEvent(main_command, properties))
    /\ \E net \in NetOutcomes :
        /\ warnings' = warnings \o SendWarnings(net)
        /\ exception' = SendException(net)
        /\ pc' = IF SendException(net) # "none" THEN "raised" ELSE "returned"
    /\ UNCHANGED <<maskVars, command_args, project_metadata, masked_command_args,
                   main_command, telemetry_file, consent, confirm_calls, hostname,
                   properties, prompts, answered, external_edits>>

\* the process ends; the next invocation is a new process and only the file
\* on disk is carried over
ProcessExit ==
    /\ pc \in {"returned", "raised"}
    /\ pc' = "idle"
    /\ command_args' = <<>>
    /\ project_metadata' = FALSE
    /\ masked_command_args' = <<>>
    /\ main_command' = EmptyStr
    /\ consent' = "none"
    /\ confirm_calls' = <<>>
    /\ hostname' = "none"
    /\ properties' = NoProperties
    /\ events' = <<>>
    /\ warnings' = <<>>
    /\ exception' = "none"
    /\ UNCHANGED <<maskVars, telemetry_file, prompts, answered, external_edits>>

\* somebody else writes, removes or protects the .telemetry file between two
\* invocations
ExternalEdit ==
    /\ pc = "idle"
    /\ external_edits < MaxExternalEdits
    /\ \E f \in FileStates \ {telemetry_file} : telemetry_file' = f
    /\ external_edits' = external_edits + 1
    /\ answered' = "none"
    /\ UNCHANGED <<maskVars, command_args, pc, project_metadata, masked_command_args,
                   main_command, consent, confirm_calls, hostname, properties,
                   events, warnings, exception, prompts>>

Next ==
    \/ BeforeCommandRun
    \/ CheckConsent
    \/ GetHostname
    \/ FormatUserCliData
    \/ SendSpecificEvent
    \/ SendGenericEvent
    \/ ProcessExit
    \/ ExternalEdit

Spec == Init /\ [][Next]_vars

(***************************************************************************)
(* Properties                                                              *)
(***************************************************************************)
Finished == pc \in {"returned", "raised"}

\* C1: an event is sent only if the consent check returned true; when it
\* returned false no event is sent in that invocation and the hook returns
\* normally.
C1_NoConsentNoEvent ==
    /\ events # <<>> => consent = "True"
    /\ consent = "False" => events = <<>> /\ pc = "returned" /\ exception = "none"

C1_Witness ==
    pc = "returned" /\ project_metadata /\ consent = "False" /\ events = <<>>

\* C2: every element of the vector mask_kedro_cli returns is a member of the
\* vocabulary built from the structure map, or the sentinel "*****".
C2_OutputInVocabularyOrMask ==
    op = "mask_kedro_cli" =>
        \A i \in 1..Len(output) :
            output[i] \in _get_vocabulary(cli_struct) \cup {MASK}

\* an unknown token and an unknown flag value went in, a known token and the
\* sentinel came out
C2_Witness ==
    /\ op = "mask_kedro_cli"
    /\ \E i \in 1..Len(command_args) :
          command_args[i] \notin _get_vocabulary(cli_struct) \cup {MASK}
    /\ \E i \in 1..Len(output) : output[i] = MASK
    /\ \E i \in 1..Len(output) : output[i] # MASK

\* C3: with project metadata, consent true and the hostname found, the hook
\* sends exactly two events, "Command run: <main_command>" and then
\* "CLI command", with the same identity, the second one's properties being
\* the first one's plus main_command, and main_command the first masked token
\* or "kedro".
C3_TwoEventsInOrder ==
    (Finished /\ project_metadata /\ consent = "True" /\ hostname = "ok") =>
        /\ Len(events) = 2
        /\ events[1].event_name =
               <<"Command run: ">> \o (IF masked_command_args = <<>> THEN Kedro
                                       ELSE masked_command_args[1])
        /\ events[2].event_name = <<"CLI command">>
        /\ events[1].identity = events[2].identity
        /\ DOMAIN events[2].properties =
               DOMAIN events[1].properties \cup {"main_command"}
        /\ "main_command" \notin DOMAIN events[1].properties
        /\ \A k \in DOMAIN events[1].properties :
               events[2].properties[k] = events[1].properties[k]
        /\ events[2].properties["main_command"] =
               (IF masked_command_args = <<>> THEN Kedro ELSE masked_command_args[1])

\* "kedro" followed by each token with one space before it
RECURSIVE SpacedTokens(_)
SpacedTokens(toks) ==
    IF toks = <<>> THEN EmptyStr
    ELSE <<" ">> \o Head(toks) \o SpacedTokens(Tail(toks))

\* C4: the raw argument vector reaches the events only through its masked
\* form: the name and the command property of every event sent are functions
\* of _mask_arguments(command_args), the command being "kedro" followed by the
\* masked tokens, one space before each.
C4_EventsDependOnMaskedOnly ==
    \A i \in 1..Len(events) :
        LET masked == _mask_arguments(command_args)
            main == IF masked = <<>> THEN Kedro ELSE masked[1]
        IN  /\ events[i].properties.command = Kedro \o SpacedTokens(masked)
            /\ events[i].event_name =
                   (IF i = 1 THEN <<"Command run: ">> \o main ELSE <<"CLI command">>)

\* both events of a command line whose masked form differs from what was typed
C4_Witness ==
    /\ Len(events) = 2
    /\ masked_command_args # command_args
    /\ \E i \in 1..Len(masked_command_args) : masked_command_args[i] = MASK

\* C5: no failure of a collaborator aborts the host command: the hook never
\* raises.
C5_HookNeverRaises == pc # "raised" /\ exception = "none"

StoredConsent(file) ==
    IF file.exists /\ file.content = "consent: true\n" THEN "True"
    ELSE IF file.exists /\ file.content = "consent: false\n" THEN "False"
    ELSE "none"

\* C7: _check_for_telemetry_consent asks the user, once and with the path of
\* the .telemetry file, exactly when the file is missing or does not hold a
\* mapping with a boolean consent entry; it returns the stored boolean when it
\* does not ask and the answer when it asks.  (Stated for a file that is
\* missing or can be read.)
C7_PromptIffNoStoredConsent ==
    [][ (pc = "check_consent" /\ pc' # "check_consent"
            /\ (telemetry_file.exists => telemetry_file.readable)) =>
            IF StoredConsent(telemetry_file) = "none"
            THEN /\ confirm_calls' = <<TelemetryFilePath(ProjectPath)>>
                 /\ consent' = answered'
                 /\ consent' # "none"
            ELSE /\ confirm_calls' = <<>>
                 /\ consent' = StoredConsent(telemetry_file)
      ]_vars

\* C8: with consent true and the hostname lookup timing out, no event is sent
\* and the hook returns normally.
C8_TimeoutSendsNothing ==
    hostname = "timeout" => events = <<>> /\ pc = "returned" /\ exception = "none"

C8_Witness ==
    hostname = "timeout" /\ consent = "True" /\ pc = "returned" /\ warnings # <<>>

\* the number of c in s
CountChar(s, c) == Cardinality({i \in 1..Len(s) : s[i] = c})

\* the number of '=' in the flag-like tokens of args
RECURSIVE EqualsInFlags(_)
EqualsInFlags(args) ==
    IF args = <<>> THEN 0
    ELSE (IF StartsWith(Head(args), "-") THEN CountChar(Head(args), "=") ELSE 0)
             + EqualsInFlags(Tail(args))

\* the number of flag-like tokens of args that contain '='
FlagsWithEquals(args) ==
    Cardinality({i \in 1..Len(args) : StartsWith(args[i], "-") /\ Contains(args[i], "=")})

\* C9 as claimed: the masked vector of either masker is never longer than the
\* input vector.
C9_NeverLonger ==
    op \in {"mask_kedro_cli", "_mask_arguments"} => Len(output) <= Len(command_args)

\* C9 as amended: the masked vector is at most as long as the input vector
\* plus, for mask_kedro_cli, the number of '=' in the flag-like tokens and,
\* for _mask_arguments, the number of flag-like tokens that contain '='.
C9_LengthBound ==
    /\ op = "mask_kedro_cli" =>
           Len(output) <= Len(command_args) + EqualsInFlags(command_args)
    /\ op = "_mask_arguments" =>
           Len(output) <= Len(command_args) + FlagsWithEquals(command_args)

\* a flag joined to its value by '=' became two elements
C9_Witness ==
    /\ op = "mask_kedro_cli"
    /\ Len(output) > Len(command_args)
    /\ Len(output) = Len(command_args) + EqualsInFlags(command_args)

\* C10: the vocabulary of every structure map holds "-h" and "--version", and
\* the vocabulary of the empty structure map is exactly these two.
C10_VocabularySeeds ==
    op = "_get_vocabulary" =>
        /\ {<<"-", "h">>, <<"-", "-", "v", "e", "r", "s", "i", "o", "n">>} \subseteq vocabulary
        /\ cli_struct = EmptyDict =>
               vocabulary = {<<"-", "h">>, <<"-", "-", "v", "e", "r", "s", "i", "o", "n">>}

C10_Witness ==
    op = "_get_vocabulary" /\ cli_struct = EmptyDict /\ Cardinality(vocabulary) = 2

\* a vector that is already masked: each token is in the vocabulary or is the
\* sentinel
FullyMasked(struct, args) ==
    \A i \in 1..Len(args) : args[i] \in _get_vocabulary(struct) \cup {MASK}

\* C11 as claimed: mask_kedro_cli returns every fully masked vector unchanged.
C11_Idempotent ==
    (op = "mask_kedro_cli" /\ FullyMasked(cli_struct, command_args)) =>
        output = command_args

\* C11 as amended: mask_kedro_cli returns a fully masked vector unchanged when
\* none of its flag-like tokens contains '='.
C11_IdempotentWithoutEquals ==
    (/\ op = "mask_kedro_cli"
     /\ FullyMasked(cli_struct, command_args)
     /\ \A i \in 1..Len(command_args) :
            StartsWith(command_args[i], "-") => ~Contains(command_args[i], "=")) =>
        output = command_args

\* a sentinel and a known flag went in and came out
C11_Witness ==
    /\ op = "mask_kedro_cli"
    /\ FullyMasked(cli_struct, command_args)
    /\ \E i, j \in 1..Len(command_args) :
          /\ command_args[i] = MASK
          /\ StartsWith(command_args[j], "-")
          /\ command_args[j] # MASK
    /\ output = command_args

\* the number of parts mask_kedro_cli decides for a token: one more than its
\* '=' when it is flag-like, one otherwise
PartCount(tok) == IF StartsWith(tok, "-") THEN CountChar(tok, "=") + 1 ELSE 1

\* the k-th of these parts: the characters with k - 1 '=' before them
PartAt(tok, k) ==
    IF ~StartsWith(tok, "-") THEN tok
    ELSE LET idx == {p \in 1..Len(tok) :
                        tok[p] # "=" /\ CountChar(SubSeq(tok, 1, p), "=") = k - 1}
         IN  IF idx = {} THEN EmptyStr
             ELSE SubSeq(tok, CHOOSE p \in idx : \A q \in idx : p <= q,
                              CHOOSE p \in idx : \A q \in idx : p >= q)

\* what the claim lets a part become
PartDecision(part, vocab) ==
    IF part \in vocab THEN <<part>>
    ELSE IF part # EmptyStr THEN <<MASK>>
    ELSE <<>>

\* the decisions of the parts from part k of token i on, in input order
RECURSIVE DecisionsFrom(_, _, _, _)
DecisionsFrom(args, i, k, vocab) ==
    IF i > Len(args) THEN <<>>
    ELSE IF k > PartCount(args[i]) THEN DecisionsFrom(args, i + 1, 1, vocab)
    ELSE PartDecision(PartAt(args[i], k), vocab) \o DecisionsFrom(args, i, k + 1, vocab)

\* C12: mask_kedro_cli decides each part on its own and in input order: a
\* positional token, a flag-like token without '=' and each '='-separated part
\* of a flag-like token is kept if it is in the vocabulary and becomes one
\* sentinel if it is non-empty and not in it; a known flag joined to an unknown
\* value gives [flag, "*****"], an unknown flag followed by a separate value
\* gives two sentinels, and a known command name is kept wherever it stands.
C12_PartsDecidedInOrder ==
    op = "mask_kedro_cli" =>
        LET vocab == _get_vocabulary(cli_struct)
            args == command_args
            Flag(t) == StartsWith(t, "-")
            Unknown(t) == t # EmptyStr /\ t \notin vocab
        IN  /\ output = DecisionsFrom(args, 1, 1, vocab)
            /\ (/\ Len(args) = 1 /\ Flag(args[1]) /\ CountChar(args[1], "=") = 1
                /\ PartAt(args[1], 1) \in vocab /\ Unknown(PartAt(args[1], 2)))
                   => output = <<PartAt(args[1], 1), MASK>>
            /\ (/\ Len(args) = 2 /\ Flag(args[1]) /\ ~Contains(args[1], "=")
                /\ Unknown(args[1]) /\ ~Flag(args[2]) /\ Unknown(args[2]))
                   => output = <<MASK, MASK>>
            /\ \A i \in 1..Len(args) :
                   (~Flag(args[i]) /\ args[i] \in vocab) =>
                       \E j \in 1..Len(output) : output[j] = args[i]

\* a known flag joined to an unknown value, after an unknown positional token
C12_Witness ==
    /\ op = "mask_kedro_cli"
    /\ Len(command_args) = 2
    /\ command_args[1] = <<"b">>
    /\ command_args[2] = <<"-", "-", "a", "=", "b">>
    /\ output = <<MASK, <<"-", "-", "a">>, MASK>>

\* the decisions of parts k..n of one token
RECURSIVE TokenDecisions(_, _, _, _)
TokenDecisions(tok, k, n, vocab) ==
    IF k > n THEN <<>>
    ELSE PartDecision(PartAt(tok, k), vocab) \o TokenDecisions(tok, k + 1, n, vocab)

\* the text before the first '=' of tok, and the whole text after it
BeforeFirstEquals(tok) ==
    SubSeq(tok, 1, (CHOOSE p \in 1..Len(tok) :
                        tok[p] = "=" /\ CountChar(SubSeq(tok, 1, p), "=") = 1) - 1)
AfterFirstEquals(tok) ==
    SubSeq(tok, (CHOOSE p \in 1..Len(tok) :
                     tok[p] = "=" /\ CountChar(SubSeq(tok, 1, p), "=") = 1) + 1, Len(tok))

\* what the tokens before and after position i contribute
MaskedBefore(i) == mask_kedro_cli(cli_struct, SubSeq(command_args, 1, i - 1))
MaskedAfter(i) == mask_kedro_cli(cli_struct, SubSeq(command_args, i + 1, Len(command_args)))

\* C13 as claimed: a flag-like token with '=' is cut at its first '=' only: it
\* yields two parts, the text before the first '=' and the whole rest, and
\* contributes at most two elements.
C13_SplitAtFirstEquals ==
    op = "mask_kedro_cli" =>
        \A i \in 1..Len(command_args) :
            (StartsWith(command_args[i], "-") /\ Contains(command_args[i], "=")) =>
                LET vocab == _get_vocabulary(cli_struct)
                    mine == PartDecision(BeforeFirstEquals(command_args[i]), vocab)
                                \o PartDecision(AfterFirstEquals(command_args[i]), vocab)
                IN  /\ Len(mine) <= 2
                    /\ output = MaskedBefore(i) \o mine \o MaskedAfter(i)

\* C13 as amended: a flag-like token with n '=' (n >= 1) is cut at every '=':
\* it yields n + 1 parts and contributes at most n + 1 elements.
C13_SplitAtEveryEquals ==
    op = "mask_kedro_cli" =>
        \A i \in 1..Len(command_args) :
            (StartsWith(command_args[i], "-") /\ Contains(command_args[i], "=")) =>
                LET vocab == _get_vocabulary(cli_struct)
                    n == CountChar(command_args[i], "=")
                    mine == TokenDecisions(command_args[i], 1, n + 1, vocab)
                IN  /\ Len(mine) <= n + 1
                    /\ output = MaskedBefore(i) \o mine \o MaskedAfter(i)

\* a flag-like token with two '=' became three elements
C13_Witness ==
    /\ op = "mask_kedro_cli"
    /\ \E i \in 1..Len(command_args) :
          /\ StartsWith(command_args[i], "-")
          /\ CountChar(command_args[i], "=") = 2
          /\ Len(output) = Len(MaskedBefore(i)) + 3 + Len(MaskedAfter(i))

\* position i of args is an item of the for loop, not a token pulled off the
\* iterator by the flag before it
RECURSIVE Visited(_, _)
Visited(args, i) ==
    \/ i = 1
    \/ ~Visited(args, i - 1)
    \/ ~(StartsWith(args[i - 1], "-") /\ ~Contains(args[i - 1], "="))

\* the loop items that are flags without '=', and those that are flags with '='
BareFlagItems(args) ==
    {i \in 1..Len(args) :
        Visited(args, i) /\ StartsWith(args[i], "-") /\ ~Contains(args[i], "=")}
EqualsFlagItems(args) ==
    {i \in 1..Len(args) :
        Visited(args, i) /\ StartsWith(args[i], "-") /\ Contains(args[i], "=")}

\* C14 as claimed: a flag without '=' is emitted verbatim, and the token after
\* it, whenever there is one, is consumed and replaced by the sentinel whatever
\* it is.
C14_NextAlwaysMasked ==
    op = "_mask_arguments" =>
        \A i \in BareFlagItems(command_args) :
            output = _mask_arguments(SubSeq(command_args, 1, i - 1))
                         \o <<command_args[i]>>
                         \o (IF i < Len(command_args) THEN <<MASK>> ELSE <<>>)
                         \o _mask_arguments(SubSeq(command_args, i + 2, Len(command_args)))

\* C14 as amended: a flag without '=' is emitted verbatim, and the token after
\* it, whenever there is one, is consumed; it is replaced by the sentinel when
\* it is a non-empty string, and dropped without a sentinel when it is empty.
C14_NextMaskedUnlessEmpty ==
    op = "_mask_arguments" =>
        \A i \in BareFlagItems(command_args) :
            output = _mask_arguments(SubSeq(command_args, 1, i - 1))
                         \o <<command_args[i]>>
                         \o (IF i < Len(command_args) /\ command_args[i + 1] # EmptyStr
                             THEN <<MASK>> ELSE <<>>)
                         \o _mask_arguments(SubSeq(command_args, i + 2, Len(command_args)))

\* a flag without '=' followed by another flag: the second flag became the sentinel
C14_Witness ==
    /\ op = "_mask_arguments"
    /\ Len(command_args) = 2
    /\ 1 \in BareFlagItems(command_args)
    /\ StartsWith(command_args[2], "-")
    /\ command_args[2] # MASK
    /\ output = <<command_args[1], MASK>>

\* C15: a flag with '=' contributes the text before its first '=' and one
\* sentinel; the text after the '=' does not influence the output, and the
\* token after the flag is processed as the next loop item.
C15_EqualsFlagMasked ==
    op = "_mask_arguments" =>
        \A i \in EqualsFlagItems(command_args) :
            /\ output = _mask_arguments(SubSeq(command_args, 1, i - 1))
                            \o <<BeforeFirstEquals(command_args[i]), MASK>>
                            \o _mask_arguments(SubSeq(command_args, i + 1, Len(command_args)))
            /\ \A t \in Tails :
                   output = _mask_arguments(
                       [command_args EXCEPT ![i] = BeforeFirstEquals(command_args[i]) \o <<"=">> \o t])

\* a flag with a value after '=' followed by a positional token that was kept
C15_Witness ==
    /\ op = "_mask_arguments"
    /\ Len(command_args) = 2
    /\ command_args[1] = <<"-", "-", "a", "=", "a", "=", "b">>
    /\ command_args[2] = <<"b">>
    /\ output = << <<"-", "-", "a">>, MASK, <<"b">> >>

\* the number of non-empty parts of args from part k of token i on
RECURSIVE NonEmptyPartsFrom(_, _, _)
NonEmptyPartsFrom(args, i, k) ==
    IF i > Len(args) THEN 0
    ELSE IF k > PartCount(args[i]) THEN NonEmptyPartsFrom(args, i + 1, 1)
    ELSE (IF PartAt(args[i], k) # EmptyStr THEN 1 ELSE 0) + NonEmptyPartsFrom(args, i, k + 1)

HasEmptyPart(args) ==
    \E i \in 1..Len(args) : \E k \in 1..PartCount(args[i]) : PartAt(args[i], k) = EmptyStr

\* C16 as claimed: for every structure map and argument vector the output
\* holds no empty string, and empty tokens and empty parts add nothing to it.
C16_NeverEmitsEmpty ==
    op = "mask_kedro_cli" =>
        /\ \A j \in 1..Len(output) : output[j] # EmptyStr
        /\ Len(output) = NonEmptyPartsFrom(command_args, 1, 1)

\* C16 as amended: when the empty string is not in the vocabulary (no key of
\* the structure map is empty), the output holds no empty string and empty
\* tokens and parts add nothing to it; when it is in the vocabulary, every
\* empty token and part is emitted as "".
C16_EmptyDroppedUnlessKnown ==
    op = "mask_kedro_cli" =>
        /\ EmptyStr \notin _get_vocabulary(cli_struct) =>
               /\ \A j \in 1..Len(output) : output[j] # EmptyStr
               /\ Len(output) = NonEmptyPartsFrom(command_args, 1, 1)
        /\ EmptyStr \in _get_vocabulary(cli_struct) =>
               /\ (\E j \in 1..Len(output) : output[j] = EmptyStr) <=> HasEmptyPart(command_args)
               /\ Len(output) = Len(command_args) + EqualsInFlags(command_args)

\* an empty token and an empty part were dropped and the other part masked
C16_Witness ==
    /\ op = "mask_kedro_cli"
    /\ EmptyStr \notin _get_vocabulary(cli_struct)
    /\ Len(command_args) = 2
    /\ command_args[1] = EmptyStr
    /\ command_args[2] = <<"-", "-", "a", "=">>
    /\ Len(output) = 1

\* every key of a structure map, at any nesting depth
RECURSIVE AllKeys(_)
AllKeys(S) ==
    DOMAIN S \cup UNION {AllKeys(S[k].d) : k \in {x \in DOMAIN S : S[x].kind = "dict"}}

\* every leaf value of a structure map, at any nesting depth: the values that
\* are not mappings
RECURSIVE AllLeaves(_)
AllLeaves(S) ==
    {S[k] : k \in {x \in DOMAIN S : S[x].kind # "dict"}}
        \cup UNION {AllLeaves(S[k].d) : k \in {x \in DOMAIN S : S[x].kind = "dict"}}

\* C17 as claimed: the vocabulary is exactly the two seeds, every key at any
\* depth, and every leaf that is not null.
C17_VocabularyExact ==
    op = "_get_vocabulary" =>
        vocabulary = {DashH, DashDashVersion}
                         \cup AllKeys(cli_struct)
                         \cup {v.s : v \in {l \in AllLeaves(cli_struct) : l # Null}}

\* C17 as amended: the vocabulary is exactly the two seeds, every key at any
\* depth, and every leaf that is neither null nor the empty string.
C17_VocabularyExactNonEmptyLeaves ==
    op = "_get_vocabulary" =>
        vocabulary = {DashH, DashDashVersion}
                         \cup AllKeys(cli_struct)
                         \cup {v.s : v \in {l \in AllLeaves(cli_struct) :
                                                l # Null /\ l # StrVal(EmptyStr)}}

\* a nested map: the nested key and the nested non-empty leaf are in the
\* vocabulary, the null leaf added nothing
C17_Witness ==
    /\ op = "_get_vocabulary"
    /\ cli_struct = (<<"a">> :> DictVal((<<"a">> :> StrVal(<<"-", "b">>)) @@ (EmptyStr :> Null)))
    /\ vocabulary = {DashH, DashDashVersion, <<"a">>, EmptyStr, <<"-", "b">>}

\* the key a node is filed under, and the option-strings of a command
NodeKey(node) == IF node.name.has THEN node.name.s ELSE Kedro
OptionStrings(node) ==
    {o \in {<<"-", "a">>, <<"-", "-", "a">>, <<"-", "b">>} :
        \E i \in 1..Len(node.params) : \E j \in 1..Len(node.params[i]) : node.params[i][j] = o}

\* value is what the raw structure holds for node: for a command its
\* option-strings, each with null; for a group one entry per child, mirroring
\* the child
RECURSIVE Mirrors(_, _)
Mirrors(node, value) ==
    /\ value.kind = "dict"
    /\ IF node.type = "Command"
       THEN /\ DOMAIN value.d = OptionStrings(node)
            /\ \A o \in DOMAIN value.d : value.d[o] = Null
       ELSE /\ DOMAIN value.d = {NodeKey(c) : c \in node.commands}
            /\ \A c \in node.commands : Mirrors(c, value.d[NodeKey(c)])

\* C18: in raw mode get_cli_structure returns a mapping with one key, the name
\* of the root (or "kedro" when it has none), and under it the structure that
\* mirrors the tree: groups as nested mappings of their children, commands as
\* mappings from their option-strings to null.
C18_RawStructureMirrorsTree ==
    (op = "get_cli_structure" /\ ~get_help) =>
        /\ DOMAIN cli_struct = {NodeKey(cli_obj)}
        /\ Mirrors(cli_obj, cli_struct[NodeKey(cli_obj)])

\* a root without a name that holds a group holding a command with options
C18_Witness ==
    /\ op = "get_cli_structure"
    /\ ~get_help
    /\ ~cli_obj.name.has
    /\ \E g \in cli_obj.commands :
          /\ g.type = "Group"
          /\ \E c \in g.commands :
                /\ c.type = "Command"
                /\ Len(c.params) = 2
                /\ DOMAIN cli_struct[Kedro].d[g.name.s].d[c.name.s].d
                       = {<<"-", "a">>, <<"-", "-", "a">>, <<"-", "b">>}

====
